---- MODULE Spec2Model ----
(***************************************************************************)
(* The authenticated REST API of backend/app.py (register, login, the      *)
(* require_auth gate, /api/me, the movie routes), the users table that     *)
(* backend/init_db.py provisions, and the MySqlHelper of                   *)
(* backend/mysql_helper.py (lazy connection, cursor scope, commit or       *)
(* rollback, ensure_table, execute_many).                                  *)
(*                                                                         *)
(* Text is a sequence of one-character strings, so that strip(), lower(),  *)
(* startswith() and slicing are computed, not assumed.                     *)
(***************************************************************************)
EXTENDS Integers, Sequences, FiniteSets, TLC

\* ---------------------------------------------------------------- bounds
\* A run makes at most MaxCalls helper calls.
MaxCalls == 3
\* The clock runs from 0 to MaxTime hours, in steps of TickHours.
MaxTime == 36
TickHours == 12

\* ------------------------------------------------------ program constants
JWT_EXPIRE_HOURS == 24
JWT_SECRET == "dev-secret-change-me"
JWT_ALG == "HS256"

Clients == {1, 2}

VARIABLES
    usersColumns,   \* the columns of the users table in the store
    users,          \* the rows of the users table
    nextId,         \* the AUTO_INCREMENT counter of users.id
    now,            \* datetime.utcnow(), in hours
    expInclusive,   \* whether the installed jwt library rejects a token at now = exp
    rpc,            \* rpc[c]: where client c's register request stands
    req,            \* req[c]: the locals of c's register request between its two store calls
    resp,           \* resp[c]: the last response client c received
    held,           \* held[c]: the token client c got from its last successful login
    connection,     \* MySqlHelper.connection: 0 for None, else the id of a connection
    connOpen,       \* the connections whose .open is true
    connects,       \* how many connections pymysql.connect has opened; they are 1..connects
    pending,        \* rows written on the open connection and not yet committed
    committed,      \* rows committed to the store
    tables,         \* the tables of the store's catalog, as <<schema, name>>
    pcH,            \* pcH[t]: where caller t's helper call stands
    call,           \* call[t]: the helper call of caller t and its locals
    scope,          \* scope[t]: the cursor scope of caller t's call
    ret,            \* ret[t]: how caller t's last helper call ended
    ncalls,         \* how many helper calls were started
    ensured         \* the tables a named ensure_table call has returned normally for

appVars == <<usersColumns, users, nextId, now, expInclusive, rpc, req, resp, held>>

helperVars ==
    <<connection, connOpen, connects, pending, committed, tables, pcH, call, scope, ret,
      ncalls, ensured>>

vars == <<appVars, helperVars>>

\* ------------------------------------------------------------------ text
Whitespace == {" "}

\* str.lower(), on the letters the inputs use
LowerChar(c) ==
    CASE c = "A" -> "a"
      [] c = "B" -> "b"
      [] c = "C" -> "c"
      [] c = "E" -> "e"
      [] c = "I" -> "i"
      [] c = "R" -> "r"
      [] c = "S" -> "s"
      [] OTHER -> c

Lower(s) == [i \in 1..Len(s) |-> LowerChar(s[i])]

RECURSIVE LStrip(_)
LStrip(s) == IF s # <<>> /\ Head(s) \in Whitespace THEN LStrip(Tail(s)) ELSE s

RECURSIVE RStrip(_)
RStrip(s) ==
    IF s # <<>> /\ s[Len(s)] \in Whitespace THEN RStrip(SubSeq(s, 1, Len(s) - 1)) ELSE s

\* str.strip()
Strip(s) == RStrip(LStrip(s))

\* (data.get("email") or "").strip().lower(); a missing email is <<>>
NormalizeEmail(raw) == Lower(Strip(raw))

HasAt(s) == \E i \in 1..Len(s) : s[i] = "@"

\* email.split("@")[0]
RECURSIVE BeforeAt(_)
BeforeAt(s) ==
    IF s = <<>> \/ Head(s) = "@" THEN <<>> ELSE <<Head(s)>> \o BeforeAt(Tail(s))

\* (data.get("username") or (email.split("@")[0] if "@" in email else email)).strip()
Username(given, email) ==
    Strip(IF given # <<>> THEN given ELSE IF HasAt(email) THEN BeforeAt(email) ELSE email)

\* ------------------------------------------------------------- passwords
\* werkzeug's salted hash: the digest is determined by method, salt and password
GeneratePasswordHash(password, salt) ==
    [method |-> "pbkdf2:sha256", salt |-> salt,
     digest |-> <<"pbkdf2:sha256", salt, password>>]

CheckPasswordHash(pwhash, password) ==
    pwhash.digest = <<pwhash.method, pwhash.salt, password>>

Range(f) == {f[i] : i \in DOMAIN f}

\* ------------------------------------------------------------ users table
\* CREATE TABLE IF NOT EXISTS users (id, email UNIQUE, password_hash, created_at)
InitDbColumns == {"id", "email", "password_hash", "created_at"}

\* INSERT INTO users (username, email, password_hash)
InsertColumns == {"username", "email", "password_hash"}

\* The store is external: its users table is the one init_db.py creates, or one
\* that also has the username column register writes.
StoreSchemas == {InitDbColumns, InitDbColumns \cup InsertColumns}

RECURSIVE RowsById(_)
RowsById(S) ==
    IF S = {} THEN <<>>
    ELSE LET r == CHOOSE x \in S : \A y \in S : x.id <= y.id
         IN  <<r>> \o RowsById(S \ {r})

\* db.execute_query("SELECT id[, password_hash] FROM users WHERE email=%s", (email,))
SelectUsers(email) == RowsById({r \in users : r.email = email})

\* What the store answers to register's INSERT: an unknown column (1054), a
\* duplicate key on the UNIQUE email (1062), or success.
InsertError(email) ==
    IF ~(InsertColumns \subseteq usersColumns) THEN "OperationalError"
    ELSE IF \E r \in users : r.email = email THEN "IntegrityError"
    ELSE "none"

\* ---------------------------------------------------------------- tokens
NoneValue == [kind |-> "None"]

\* the claims of a token: `has` are the keys present
Claims(has, uid, email, exp) ==
    [kind |-> "claims", has |-> has, uid |-> uid, email |-> email, exp |-> exp]

EmptyClaims == Claims({}, 0, <<>>, 0)

\* HS256: the signature is determined by the algorithm, the key and the signed data
Sign(data, key) == <<JWT_ALG, key, data>>

\* jwt.encode(data, key, algorithm=JWT_ALG)
JwtEncode(data, key) == [kind |-> "jwt", data |-> data, sig |-> Sign(data, key)]

\* create_jwt that returns the payload signed as it came, with no expiry
CreateJwtNoExpiry(payload, t) == JwtEncode(payload, JWT_SECRET)

\* create_jwt: {**payload, "exp": utcnow() + timedelta(hours=JWT_EXPIRE_HOURS)}
CreateJwt(payload, t) ==
    JwtEncode([payload EXCEPT !.has = payload.has \cup {"exp"},
                              !.exp = t + JWT_EXPIRE_HOURS], JWT_SECRET)

\* the library's expiry test at time t
Expired(exp, t) == IF expInclusive THEN exp <= t ELSE exp < t

\* decode_jwt on a token string: `extra` are characters in front of the token
DecodeJwt(token, t) ==
    IF token.extra # <<>> \/ token.cred.kind # "jwt" THEN NoneValue
    ELSE IF token.cred.sig # Sign(token.cred.data, JWT_SECRET) THEN NoneValue
    ELSE IF "exp" \in token.cred.data.has /\ Expired(token.cred.data.exp, t) THEN NoneValue
    ELSE token.cred.data

\* ------------------------------------------------------------- the gate
\* An Authorization header: `scheme` is its text up to the credentials, `cred`
\* the credentials (a token, something that is no token, or nothing).
NoCred == [kind |-> "absent"]
Garbage == [kind |-> "garbage"]

BearerPrefix == <<"b", "e", "a", "r", "e", "r", " ">>

\* auth.lower().startswith("bearer ")
StartsWithBearer(scheme) ==
    /\ Len(scheme) >= Len(BearerPrefix)
    /\ SubSeq(Lower(scheme), 1, Len(BearerPrefix)) = BearerPrefix

\* get_token_from_header: auth[7:], or None
GetTokenFromHeader(header) ==
    IF StartsWithBearer(header.scheme)
    THEN [kind |-> "str", extra |-> SubSeq(header.scheme, 8, Len(header.scheme)),
          cred |-> header.cred]
    ELSE NoneValue

\* Python truthiness of the token string and of the decoded claims
TruthyToken(token) ==
    token.kind = "str" /\ ~(token.extra = <<>> /\ token.cred = NoCred)

TruthyData(data) == data.kind = "claims" /\ data.has # {}

\* require_auth that reads the claims of the token without verifying it
RequireAuthUnverified(header, t) ==
    LET token == GetTokenFromHeader(header)
    IN  IF TruthyToken(token) /\ token.extra = <<>> /\ token.cred.kind = "jwt"
           /\ TruthyData(token.cred.data)
        THEN token.cred.data
        ELSE NoneValue

\* require_auth's wrapper up to the call of fn: the claims put in g.user, or
\* NoneValue when it answers 401
RequireAuth(header, t) ==
    LET token == GetTokenFromHeader(header)
        data == IF TruthyToken(token) THEN DecodeJwt(token, t) ELSE NoneValue
    IN  IF ~TruthyData(data) THEN NoneValue ELSE data

\* ----------------------------------------------------------------- inputs
RawEmails ==
    { <<>>, <<" ">>, <<" ", "A", "@", "B", " ">>, <<"a", "@", "b">> }

GivenUsernames == { <<>>, <<"n", " ">> }

Passwords == {"", "p", "q"}

Salts == {"s1"}

Schemes ==
    { <<>>,
      <<"B", "e", "a", "r", "e", "r", " ">>,
      <<"b", "e", "a", "r", "e", "r", " ">>,
      <<"B", "E", "A", "R", "E", "R", " ">>,
      <<"B", "e", "a", "r", "e", "r">>,
      <<"B", "e", "a", "r", "e", "r", " ", " ">>,
      <<"B", "a", "s", "i", "c", " ">> }

\* tokens somebody who knows the secret can construct by hand
ManualTokens ==
    { JwtEncode(EmptyClaims, JWT_SECRET),
      JwtEncode(Claims({"uid", "email", "exp"}, 1, <<"a", "@", "b">>, 0 - 1), JWT_SECRET),
      JwtEncode(Claims({"exp"}, 0, <<>>, MaxTime + JWT_EXPIRE_HOURS), JWT_SECRET) }

\* the token a client holds, with its payload altered or signed with another key
Tampered(tok) == [tok EXCEPT !.data.uid = @ + 1]
Resigned(tok) == JwtEncode(tok.data, "other-secret")

Credentials(c) ==
    {NoCred, Garbage} \cup ManualTokens
    \cup (IF held[c] = NoCred THEN {}
          ELSE {held[c], Tampered(held[c]), Resigned(held[c])})

Headers(c) == [scheme : Schemes, cred : Credentials(c)]

GatedRoutes == {"me", "by-year", "by-genre", "by-country"}

\* ------------------------------------------------------------------ Init
AppInit ==
    /\ usersColumns \in StoreSchemas
    /\ users = {}
    /\ nextId = 1
    /\ now = 0
    /\ expInclusive \in BOOLEAN
    /\ rpc = [c \in Clients |-> "idle"]
    /\ req = [c \in Clients |-> [kind |-> "None"]]
    /\ resp = [c \in Clients |-> [op |-> "none"]]
    /\ held = [c \in Clients |-> NoCred]

\* --------------------------------------------------------------- register
\* register up to and including its SELECT (app.py 75-87)
RegisterBegin(c, raw, given, password) ==
    /\ rpc[c] = "idle"
    /\ LET email == NormalizeEmail(raw)
           username == Username(given, email)
           rows == SelectUsers(email)
       IN  IF email = <<>> \/ password = ""
           THEN /\ resp' = [resp EXCEPT ![c] =
                      [op |-> "register", status |-> 400, rawEmail |-> raw,
                       password |-> password, found |-> FALSE, calls |-> <<>>,
                       error |-> "email and password required"]]
                /\ UNCHANGED <<rpc, req>>
           ELSE IF rows # <<>>
           THEN /\ resp' = [resp EXCEPT ![c] =
                      [op |-> "register", status |-> 409, rawEmail |-> raw,
                       password |-> password, found |-> TRUE, calls |-> <<"select">>,
                       error |-> "email already exists"]]
                /\ UNCHANGED <<rpc, req>>
           ELSE /\ rpc' = [rpc EXCEPT ![c] = "insert"]
                /\ req' = [req EXCEPT ![c] =
                      [kind |-> "register", rawEmail |-> raw, email |-> email,
                       username |-> username, password |-> password]]
                /\ resp' = [resp EXCEPT ![c] = [op |-> "register_pending"]]
    /\ UNCHANGED <<usersColumns, users, nextId, now, expInclusive, held>>
    /\ UNCHANGED helperVars

\* register from generate_password_hash to its response (app.py 89-96); an
\* exception of execute_non_query is not caught and becomes a 500
RegisterInsert(c, salt) ==
    /\ rpc[c] = "insert"
    /\ LET r == req[c]
           pwd_hash == GeneratePasswordHash(r.password, salt)
           err == InsertError(r.email)
       IN  IF err = "none"
           THEN /\ users' = users \cup
                      {[id |-> nextId, username |-> r.username, email |-> r.email,
                        password_hash |-> pwd_hash]}
                /\ nextId' = nextId + 1
                /\ resp' = [resp EXCEPT ![c] =
                      [op |-> "register", status |-> 200, rawEmail |-> r.rawEmail,
                       password |-> r.password, found |-> FALSE,
                       calls |-> <<"select", "insert">>, error |-> "none"]]
           ELSE /\ resp' = [resp EXCEPT ![c] =
                      [op |-> "register", status |-> 500, rawEmail |-> r.rawEmail,
                       password |-> r.password, found |-> FALSE,
                       calls |-> <<"select", "insert">>, error |-> err]]
                /\ UNCHANGED <<users, nextId>>
    /\ rpc' = [rpc EXCEPT ![c] = "idle"]
    /\ req' = [req EXCEPT ![c] = [kind |-> "None"]]
    /\ UNCHANGED <<usersColumns, now, expInclusive, held>>
    /\ UNCHANGED helperVars

\* ------------------------------------------------------------------ login
\* what the request before this one was, when it was a register
Previous(r) ==
    IF r.op = "register"
    THEN [op |-> "register", rawEmail |-> r.rawEmail, password |-> r.password,
          found |-> r.found, status |-> r.status]
    ELSE [op |-> "other"]

\* login that reads rows[0] without looking whether there is one: an IndexError,
\* a 500
LoginAnswerUnguarded(rows, email, password, t) ==
    IF rows = <<>> THEN [status |-> 500, token |-> NoCred]
    ELSE IF ~CheckPasswordHash(rows[1].password_hash, password)
    THEN [status |-> 401, token |-> NoCred]
    ELSE [status |-> 200,
          token |-> CreateJwt(Claims({"uid", "email"}, rows[1].id, email, 0), t)]

\* login's answer from the rows of its SELECT (app.py 107-111)
LoginAnswer(rows, email, password, t) ==
    IF rows = <<>> \/ ~CheckPasswordHash(rows[1].password_hash, password)
    THEN [status |-> 401, token |-> NoCred]
    ELSE [status |-> 200,
          token |-> CreateJwt(Claims({"uid", "email"}, rows[1].id, email, 0), t)]

Login(c, raw, password) ==
    /\ rpc[c] = "idle"
    /\ LET email == NormalizeEmail(raw)
           missing == email = <<>> \/ password = ""
           ans == IF missing THEN [status |-> 400, token |-> NoCred]
                  ELSE LoginAnswer(SelectUsers(email), email, password, now)
       IN  /\ resp' = [resp EXCEPT ![c] =
                 [op |-> "login", status |-> ans.status, rawEmail |-> raw,
                  password |-> password, token |-> ans.token, at |-> now,
                  calls |-> IF missing THEN <<>> ELSE <<"select">>,
                  prev |-> Previous(resp[c])]]
           /\ held' = [held EXCEPT ![c] = IF ans.status = 200 THEN ans.token ELSE @]
    /\ UNCHANGED <<usersColumns, users, nextId, now, expInclusive, rpc, req>>
    /\ UNCHANGED helperVars

\* ----------------------------------------------------------- gated routes
\* the body of a gated route, run with g.user = data: /api/me reads uid and
\* email (a KeyError becomes a 500), a movie route runs one read statement
RouteBody(route, data) ==
    IF route = "me"
    THEN IF {"uid", "email"} \subseteq data.has
         THEN [status |-> 200, uid |-> data.uid, email |-> data.email, calls |-> <<>>]
         ELSE [status |-> 500, uid |-> 0, email |-> <<>>, calls |-> <<>>]
    ELSE [status |-> 200, uid |-> 0, email |-> <<>>, calls |-> <<"select">>]

Gated(c, route, header) ==
    /\ rpc[c] = "idle"
    /\ LET data == RequireAuth(header, now)
           ran == data # NoneValue
           out == IF ran THEN RouteBody(route, data)
                  ELSE [status |-> 401, uid |-> 0, email |-> <<>>, calls |-> <<>>]
       IN  resp' = [resp EXCEPT ![c] =
               [op |-> "gated", route |-> route, header |-> header, at |-> now,
                ran |-> ran, status |-> out.status, uid |-> out.uid,
                email |-> out.email, calls |-> out.calls]]
    /\ UNCHANGED <<usersColumns, users, nextId, now, expInclusive, rpc, req, held>>
    /\ UNCHANGED helperVars

\* time passes
Tick ==
    /\ now + TickHours <= MaxTime
    /\ now' = now + TickHours
    /\ UNCHANGED <<usersColumns, users, nextId, expInclusive, rpc, req, resp, held>>
    /\ UNCHANGED helperVars

\* ---------------------------------------------------------- MySqlHelper
Threads == {1, 2}

\* DATABASE() of the connection (the database in the connection parameters)
CurrentDatabase == "testdb"

\* COALESCE(%s, DATABASE()) for the schema argument; "None" is Python's None
ResolveSchema(schema) == IF schema = "None" THEN CurrentDatabase ELSE schema

NoStmt == [kind |-> "none", row |-> "", table |-> "", ifNotExists |-> FALSE]
SelectStmt == [kind |-> "select", row |-> "", table |-> "", ifNotExists |-> FALSE]
CatalogStmt == [kind |-> "catalog", row |-> "", table |-> "", ifNotExists |-> FALSE]
InsertStmt(row) == [kind |-> "insert", row |-> row, table |-> "", ifNotExists |-> FALSE]
CreateStmt(table, ine) == [kind |-> "create", row |-> "", table |-> table, ifNotExists |-> ine]

\* the table an unqualified CREATE TABLE creates
Target(stmt) == <<CurrentDatabase, stmt.table>>

NoCall ==
    [op |-> "none", stmt |-> NoStmt, params |-> <<>>, name |-> "", schema |-> "",
     phase |-> "done", nonQueryCalls |-> 0, executes |-> 0, again |-> FALSE,
     rows |-> <<>>]

NoScope ==
    [of |-> 0, conn |-> 0, cursor |-> "none", body |-> "none", commits |-> 0,
     rollbacks |-> 0, commitFailed |-> FALSE, raised |-> FALSE, done |-> FALSE]

NoRet == [op |-> "none", outcome |-> "none", value |-> 0]

HelperInit ==
    /\ connection = 0
    /\ connOpen = {}
    /\ connects = 0
    /\ pending = {}
    /\ committed = {}
    /\ tables \in {{}, {<<CurrentDatabase, "users">>}}
    /\ pcH = [t \in Threads |-> "idle"]
    /\ call = [t \in Threads |-> NoCall]
    /\ scope = [t \in Threads |-> NoScope]
    /\ ret = [t \in Threads |-> NoRet]
    /\ ncalls = 0
    /\ ensured = {}

\* _get_connection that connects on every call
GetConnectionAlways(connectOK) ==
    IF connectOK
    THEN [raised |-> FALSE, connection |-> connects + 1,
          connOpen |-> connOpen \cup {connects + 1}, connects |-> connects + 1]
    ELSE [raised |-> TRUE, connection |-> connection, connOpen |-> connOpen,
          connects |-> connects]

\* _get_connection: connect when there is no connection or it is not open,
\* else reuse; a failing connect raises and leaves self.connection as it was
GetConnection(connectOK) ==
    IF connection = 0 \/ connection \notin connOpen
    THEN IF connectOK
         THEN [raised |-> FALSE, connection |-> connects + 1,
               connOpen |-> connOpen \cup {connects + 1}, connects |-> connects + 1]
         ELSE [raised |-> TRUE, connection |-> connection, connOpen |-> connOpen,
               connects |-> connects]
    ELSE [raised |-> FALSE, connection |-> connection, connOpen |-> connOpen,
          connects |-> connects]

\* _get_cursor from `cursor = conn.cursor()` to the yield: a failing cursor()
\* goes through `except` (rollback, raise) and `finally` (no cursor to close)
ScopeEnter(conn, cursorOK) ==
    IF cursorOK
    THEN [NoScope EXCEPT !.conn = conn, !.cursor = "open", !.body = "pending"]
    ELSE [NoScope EXCEPT !.conn = conn, !.rollbacks = 1, !.raised = TRUE, !.done = TRUE]

\* _get_cursor's exit that does not roll back after a failing commit
ScopeExitNoRollback(s, commitOK) ==
    IF s.body = "ok"
    THEN IF commitOK
         THEN [s EXCEPT !.commits = 1, !.cursor = "closed", !.done = TRUE]
         ELSE [s EXCEPT !.commits = 1, !.commitFailed = TRUE, !.raised = TRUE,
                        !.cursor = "closed", !.done = TRUE]
    ELSE [s EXCEPT !.rollbacks = 1, !.raised = TRUE, !.cursor = "closed", !.done = TRUE]

\* _get_cursor after the yield: commit when the body completed; `except`
\* (rollback, raise) when the body or the commit raised; `finally` closes the cursor
ScopeExit(s, commitOK) ==
    IF s.body = "ok"
    THEN IF commitOK
         THEN [s EXCEPT !.commits = 1, !.cursor = "closed", !.done = TRUE]
         ELSE [s EXCEPT !.commits = 1, !.rollbacks = 1, !.commitFailed = TRUE,
                        !.raised = TRUE, !.cursor = "closed", !.done = TRUE]
    ELSE [s EXCEPT !.rollbacks = 1, !.raised = TRUE, !.cursor = "closed", !.done = TRUE]

\* execute_many with a guard that never holds
ManyNeverNoop(param_list) == FALSE

\* execute_many's `if not param_list: return 0`
ManyIsNoop(param_list) == param_list = <<>>

\* ensure_table with a guard that never looks the table up
EnsureNeverChecks(table_name) == FALSE

\* ensure_table's `if table_name:`
EnsureChecks(table_name) == table_name # ""

\* a commit or rollback can succeed only on an open connection
Outcomes(conn) == IF conn \in connOpen THEN BOOLEAN ELSE {FALSE}

\* the helper's calls and their arguments
HelperRows == {"r1", "r2"}
TableNames == {"users"}
SchemaArgs == {"None", "other"}

CallInputs ==
    LET mk(op, stmt, params, name, schema) ==
            [NoCall EXCEPT !.op = op, !.stmt = stmt, !.params = params, !.name = name,
                           !.schema = schema, !.phase = "run"]
    IN  {mk("execute_query", SelectStmt, <<>>, "", "")}
        \cup {mk("execute_non_query", InsertStmt("r1"), <<>>, "", "")}
        \cup {mk("execute_non_query", CreateStmt("users", i), <<>>, "", "") : i \in BOOLEAN}
        \cup {mk("execute_many", InsertStmt(""), p, "", "") :
                  p \in {<<>>, <<"r1", "r2">>}}
        \cup {mk("table_exists", CatalogStmt, <<>>, n, s) : n \in TableNames, s \in SchemaArgs}
        \cup {mk("ensure_table", CreateStmt("users", i), <<>>, n, s) :
                  i \in BOOLEAN, n \in TableNames \cup {""}, s \in SchemaArgs}

\* entering a cursor scope for call c: _get_connection, then conn.cursor()
Enter(t, c, connectOK, cursorOK, rollbackOK) ==
    LET g == GetConnection(connectOK)
        s == ScopeEnter(g.connection, cursorOK)
    IN  /\ connection' = g.connection
        /\ connOpen' = g.connOpen
        /\ connects' = g.connects
        /\ IF g.raised
           THEN /\ scope' = [scope EXCEPT ![t] = NoScope]
                /\ call' = [call EXCEPT ![t] = [c EXCEPT !.phase = "done"]]
                /\ ret' = [ret EXCEPT ![t] =
                       [op |-> c.op, outcome |-> "raise", value |-> 0]]
                /\ pcH' = [pcH EXCEPT ![t] = "idle"]
                /\ UNCHANGED pending
           ELSE /\ scope' = [scope EXCEPT ![t] = [s EXCEPT !.of = ncalls']]
                /\ IF s.done
                   THEN /\ call' = [call EXCEPT ![t] = [c EXCEPT !.phase = "done"]]
                        /\ ret' = [ret EXCEPT ![t] =
                               [op |-> c.op, outcome |-> "raise", value |-> 0]]
                        /\ pcH' = [pcH EXCEPT ![t] = "idle"]
                        /\ pending' = IF rollbackOK THEN {} ELSE pending
                   ELSE /\ call' = [call EXCEPT ![t] = c]
                        /\ pcH' = [pcH EXCEPT ![t] = "body"]
                        /\ ret' = [ret EXCEPT ![t] = NoRet]
                        /\ UNCHANGED pending
        /\ UNCHANGED <<committed, tables, ensured>>
        /\ UNCHANGED appVars

\* a caller starts execute_query, execute_non_query, execute_many, table_exists
\* or ensure_table; the action runs the call up to the yield of its first scope
StartCall(t, c, connectOK, cursorOK, rollbackOK) ==
    /\ pcH[t] = "idle"
    /\ ncalls < MaxCalls
    /\ ncalls' = ncalls + 1
    /\ IF c.op = "execute_many" /\ ManyIsNoop(c.params)
       THEN /\ call' = [call EXCEPT ![t] = [c EXCEPT !.phase = "done"]]
            /\ ret' = [ret EXCEPT ![t] =
                   [op |-> c.op, outcome |-> "return", value |-> 0]]
            /\ UNCHANGED <<connection, connOpen, connects, pending, committed, tables,
                           pcH, scope, ensured>>
            /\ UNCHANGED appVars
       ELSE LET checks == c.op = "table_exists"
                              \/ (c.op = "ensure_table" /\ EnsureChecks(c.name))
                nonQuery == c.op = "execute_non_query"
                              \/ (c.op = "ensure_table" /\ ~checks)
            IN  Enter(t, [c EXCEPT !.phase = IF checks THEN "check" ELSE "run",
                                   !.nonQueryCalls = IF nonQuery THEN 1 ELSE 0,
                                   !.again = <<ResolveSchema(c.schema), c.name>> \in ensured],
                      connectOK, cursorOK, rollbackOK)

\* ensure_table, the table not found: self.execute_non_query(create_table_sql)
EnterCreate(t, connectOK, cursorOK, rollbackOK) ==
    /\ pcH[t] = "create"
    /\ UNCHANGED ncalls
    /\ Enter(t, [call[t] EXCEPT !.phase = "run", !.nonQueryCalls = @ + 1],
             connectOK, cursorOK, rollbackOK)

\* the statement the body of the scope sends
BodyStmt(c) == IF c.phase = "check" THEN CatalogStmt ELSE c.stmt

\* whether the store can accept the statement: the connection is open, and a
\* CREATE TABLE without IF NOT EXISTS finds no such table
CanSucceed(conn, stmt) ==
    /\ conn \in connOpen
    /\ (stmt.kind = "create" /\ ~stmt.ifNotExists) => Target(stmt) \notin tables

\* the body of the with block: cursor.execute / cursor.executemany. The rows of
\* a read are buffered in the cursor; a write stays pending until the commit; a
\* CREATE TABLE takes effect at once and commits what is pending.
Body(t, ok) ==
    /\ pcH[t] = "body"
    /\ LET c == call[t]
           stmt == BodyStmt(c)
       IN  /\ ok => CanSucceed(scope[t].conn, stmt)
           /\ scope' = [scope EXCEPT ![t].body = IF ok THEN "ok" ELSE "raised"]
           /\ call' = [call EXCEPT
                  ![t].executes = @ + 1,
                  ![t].rows =
                      IF ~ok THEN <<>>
                      ELSE IF stmt.kind = "catalog"
                      THEN IF <<ResolveSchema(c.schema), c.name>> \in tables
                           THEN <<1>> ELSE <<>>
                      ELSE IF stmt.kind = "select" THEN <<Cardinality(committed \cup pending)>>
                      ELSE <<>>]
           /\ IF ~ok THEN UNCHANGED <<pending, committed, tables>>
              ELSE IF stmt.kind = "insert"
              THEN /\ pending' = pending \cup (IF c.op = "execute_many"
                                                THEN Range(c.params) ELSE {stmt.row})
                   /\ UNCHANGED <<committed, tables>>
              ELSE IF stmt.kind = "create"
              THEN /\ tables' = tables \cup {Target(stmt)}
                   /\ committed' = committed \cup pending
                   /\ pending' = {}
              ELSE UNCHANGED <<pending, committed, tables>>
    /\ pcH' = [pcH EXCEPT ![t] = "exit"]
    /\ UNCHANGED <<connection, connOpen, connects, ret, ncalls, ensured>>
    /\ UNCHANGED appVars

\* what a call returns once its scope has ended without raising
ReturnValue(c) ==
    IF c.op \in {"table_exists"} THEN (IF c.rows # <<>> THEN 1 ELSE 0)
    ELSE IF c.op = "execute_query" THEN (IF c.rows = <<>> THEN 0 ELSE c.rows[1])
    ELSE IF c.op = "execute_many" THEN Len(c.params)
    ELSE IF c.op = "execute_non_query" /\ c.stmt.kind = "insert" THEN 1
    ELSE 0

\* the end of the scope (commit or rollback, close) and what the call does
\* next: raise, return, or, in ensure_table when fetchone() found no table, go
\* on to execute_non_query
Exit(t, commitOK, rollbackOK) ==
    /\ pcH[t] = "exit"
    /\ LET c == call[t]
           s == ScopeExit(scope[t], commitOK)
           key == <<ResolveSchema(c.schema), c.name>>
           found == c.rows # <<>>
           goesOn == ~s.raised /\ c.op = "ensure_table" /\ c.phase = "check" /\ ~found
       IN  /\ scope' = [scope EXCEPT ![t] = s]
           /\ committed' = IF s.commits = 1 /\ ~s.commitFailed
                           THEN committed \cup pending ELSE committed
           /\ pending' = IF (s.commits = 1 /\ ~s.commitFailed)
                            \/ (s.rollbacks = 1 /\ rollbackOK)
                         THEN {} ELSE pending
           /\ IF goesOn
              THEN /\ pcH' = [pcH EXCEPT ![t] = "create"]
                   /\ UNCHANGED <<call, ret, ensured>>
              ELSE /\ pcH' = [pcH EXCEPT ![t] = "idle"]
                   /\ call' = [call EXCEPT ![t].phase = "done"]
                   /\ ret' = [ret EXCEPT ![t] =
                          [op |-> c.op,
                           outcome |-> IF s.raised THEN "raise" ELSE "return",
                           value |-> IF s.raised THEN 0 ELSE ReturnValue(c)]]
                   /\ ensured' =
                          IF ~s.raised /\ c.op = "ensure_table" /\ c.name # ""
                             /\ Target(c.stmt) = key
                          THEN ensured \cup {key} ELSE ensured
    /\ UNCHANGED <<connection, connOpen, connects, tables, ncalls>>
    /\ UNCHANGED appVars

\* close(): closes an open connection and forgets it
Close(t) ==
    /\ pcH[t] = "idle"
    /\ ncalls < MaxCalls
    /\ ncalls' = ncalls + 1
    /\ IF connection # 0 /\ connection \in connOpen
       THEN /\ connOpen' = connOpen \ {connection}
            /\ connection' = 0
            /\ pending' = {}
       ELSE UNCHANGED <<connection, connOpen, pending>>
    /\ call' = [call EXCEPT ![t] = [NoCall EXCEPT !.op = "close"]]
    /\ ret' = [ret EXCEPT ![t] = [op |-> "close", outcome |-> "return", value |-> 0]]
    /\ UNCHANGED <<connects, committed, tables, pcH, scope, ensured>>
    /\ UNCHANGED appVars

\* the server or the network drops the helper's connection
Drop ==
    /\ connection # 0
    /\ connection \in connOpen
    /\ connOpen' = connOpen \ {connection}
    /\ pending' = {}
    /\ UNCHANGED <<connection, connects, committed, tables, pcH, call, scope, ret,
                   ncalls, ensured>>
    /\ UNCHANGED appVars

\* ------------------------------------------------------- specifications
\* requests handled one after the other (one client), at one instant
AppNext ==
    \/ \E raw \in RawEmails, given \in GivenUsernames, password \in Passwords :
           RegisterBegin(1, raw, given, password)
    \/ \E salt \in Salts : RegisterInsert(1, salt)
    \/ \E raw \in RawEmails, password \in Passwords : Login(1, raw, password)
    \/ \E route \in GatedRoutes, header \in Headers(1) : Gated(1, route, header)

Init == AppInit /\ HelperInit

\* the application serving, the helper state of a fresh process
AppSpecInit == Init /\ tables = {<<CurrentDatabase, "users">>}


Spec == AppSpecInit /\ [][AppNext]_vars

\* one user registers, logs in and presents the token while time passes
ClockEmail == <<"a", "@", "b">>

ClockHeaders(c) ==
    [scheme : {<<"B", "e", "a", "r", "e", "r", " ">>}, cred : Credentials(c) \ {Garbage}]

ClockNext ==
    \/ RegisterBegin(1, ClockEmail, <<>>, "p")
    \/ \E salt \in Salts : RegisterInsert(1, salt)
    \/ Login(1, ClockEmail, "p")
    \/ \E header \in ClockHeaders(1) : Gated(1, "me", header)
    \/ Tick

SpecClock == AppSpecInit /\ [][ClockNext]_vars

\* two register requests in flight at once, one per client, nothing else
RaceNext ==
    \E c \in Clients :
        \/ /\ resp[c].op = "none"
           /\ \E raw \in RawEmails, given \in GivenUsernames, password \in Passwords :
                  RegisterBegin(c, raw, given, password)
        \/ \E salt \in Salts : RegisterInsert(c, salt)

SpecRace == AppSpecInit /\ [][RaceNext]_vars

\* one caller uses the helper, one call after the other, while the connection
\* may drop at any moment
HelperNext ==
    \/ \E c \in CallInputs, connectOK \in BOOLEAN, cursorOK \in BOOLEAN,
          rollbackOK \in BOOLEAN :
           StartCall(1, c, connectOK, cursorOK, rollbackOK)
    \/ \E connectOK \in BOOLEAN, cursorOK \in BOOLEAN, rollbackOK \in BOOLEAN :
           EnterCreate(1, connectOK, cursorOK, rollbackOK)
    \/ \E ok \in BOOLEAN : Body(1, ok)
    \/ \E commitOK \in Outcomes(scope[1].conn), rollbackOK \in Outcomes(scope[1].conn) :
           Exit(1, commitOK, rollbackOK)
    \/ Close(1)
    \/ Drop

\* the helper of init_db.py: the application is not serving
HelperSpecInit == Init /\ usersColumns = InitDbColumns /\ ~expInclusive

SpecHelper == HelperSpecInit /\ [][HelperNext]_vars

\* the row a request writes
SharedRow(t) == IF t = 1 THEN "r1" ELSE "r2"

\* what a request does with the process-wide helper: reads, then one write
SharedInputs(t) ==
    {c \in CallInputs :
        \/ c.op = "execute_query"
        \/ c.op = "execute_non_query" /\ c.stmt = InsertStmt(SharedRow(t))}

\* two requests served by two threads use the one helper, and with it the one
\* connection, at once; their calls interleave at the yield and the exit of
\* each cursor scope. The connection stays up, so a rollback succeeds; a
\* statement or a commit may still be refused by the store.
SharedNext ==
    \E t \in Threads :
        \/ /\ call[t].op # "execute_non_query"
           /\ \E c \in SharedInputs(t), connectOK \in BOOLEAN, cursorOK \in BOOLEAN :
                  StartCall(t, c, connectOK, cursorOK, TRUE)
        \/ \E ok \in BOOLEAN : Body(t, ok)
        \/ \E commitOK \in Outcomes(scope[t].conn) : Exit(t, commitOK, TRUE)

SpecShared == HelperSpecInit /\ [][SharedNext]_vars

\* ------------------------------------------------------------------ claims
UsersWithEmail(email) == {r \in users : r.email = email}

\* the token string a client sends for credentials `cred`
TokenString(cred) == [kind |-> "str", extra |-> <<>>, cred |-> cred]

\* C1: two register requests handled one after the other with the same
\* normalized email and non-empty passwords: the one that finds no such user
\* answers 200 and leaves exactly one row for the email, the one that finds the
\* user answers 409 and the table still holds exactly one row for the email.
C1_RegisterTwice ==
    LET r == resp[1] IN
    (r.op = "register" /\ NormalizeEmail(r.rawEmail) # <<>> /\ r.password # "")
        => /\ r.status = IF r.found THEN 409 ELSE 200
           /\ Cardinality(UsersWithEmail(NormalizeEmail(r.rawEmail))) = 1

\* the first register for an email on the table init_db.py creates answered 500
C1_Witness ==
    LET r == resp[1] IN
    /\ r.op = "register" /\ ~r.found /\ r.password # ""
    /\ usersColumns = InitDbColumns
    /\ r.status = 500 /\ r.error = "OperationalError"
    /\ UsersWithEmail(NormalizeEmail(r.rawEmail)) = {}

\* C2: a register of a new user followed by a login with the same email and
\* password: the login answers 200 with a token that decode_jwt accepts and
\* whose claims are the normalized email and the id of the user's row.
C2_RegisterThenLogin ==
    LET r == resp[1] IN
    (/\ r.op = "login"
     /\ r.prev.op = "register"
     /\ ~r.prev.found
     /\ NormalizeEmail(r.prev.rawEmail) = NormalizeEmail(r.rawEmail)
     /\ r.prev.password = r.password
     /\ NormalizeEmail(r.rawEmail) # <<>>
     /\ r.password # "")
        => /\ r.status = 200
           /\ LET data == DecodeJwt(TokenString(r.token), r.at)
              IN  /\ data # NoneValue
                  /\ data.email = NormalizeEmail(r.rawEmail)
                  /\ \E u \in UsersWithEmail(data.email) : u.id = data.uid

\* a login right after the register of the same email and password answered 401
C2_Witness ==
    LET r == resp[1] IN
    /\ r.op = "login" /\ r.status = 401 /\ r.password # ""
    /\ r.prev.op = "register" /\ ~r.prev.found /\ r.prev.status = 500
    /\ NormalizeEmail(r.prev.rawEmail) = NormalizeEmail(r.rawEmail)
    /\ r.prev.password = r.password

\* "Bearer <token>": the scheme word (in any letter case), one space, a token
BearerForm(header) == Lower(header.scheme) = BearerPrefix /\ header.cred.kind = "jwt"

SignedByServer(cred) == cred.sig = Sign(cred.data, JWT_SECRET)

NotExpired(cred, t) == "exp" \notin cred.data.has \/ ~Expired(cred.data.exp, t)

\* C3 as stated: a gated route runs its handler body if and only if the header
\* is "Bearer <token>" and the token has a valid signature and is not expired.
C3_GateAsStated ==
    LET r == resp[1] IN
    r.op = "gated"
        => (r.ran <=> /\ BearerForm(r.header)
                      /\ SignedByServer(r.header.cred)
                      /\ NotExpired(r.header.cred, r.at))

\* C3, amended: a gated route runs its handler body if and only if the header
\* is "Bearer <token>" and the token has a valid signature, is not expired and
\* carries at least one claim; otherwise the answer is 401 and no store call is
\* made; /api/me with a token that carries uid and email answers exactly them.
C3_Gate ==
    LET r == resp[1] IN
    r.op = "gated"
        => /\ r.ran <=> /\ BearerForm(r.header)
                        /\ SignedByServer(r.header.cred)
                        /\ NotExpired(r.header.cred, r.at)
                        /\ r.header.cred.data.has # {}
           /\ ~r.ran => r.status = 401 /\ r.calls = <<>>
           /\ (r.ran /\ r.route = "me" /\ {"uid", "email"} \subseteq r.header.cred.data.has)
                  => /\ r.status = 200
                     /\ r.uid = r.header.cred.data.uid
                     /\ r.email = r.header.cred.data.email

\* /api/me answered with the identity of a token that login issued
C3_Witness ==
    LET r == resp[1] IN
    /\ r.op = "gated" /\ r.route = "me" /\ r.ran /\ r.status = 200
    /\ r.header.cred = held[1]
    /\ \E u \in users : u.id = r.uid /\ u.email = r.email

\* C4: login answers 400 without a store call when email or password is
\* missing; with both given it answers 401 without a token when no row exists
\* for the normalized email or the password does not match the stored hash;
\* and no login changes the users table.
C4_LoginRejects ==
    /\ [](LET r == resp[1]
              email == NormalizeEmail(r.rawEmail)
          IN  r.op = "login" =>
                /\ (email = <<>> \/ r.password = "")
                       => r.status = 400 /\ r.calls = <<>> /\ r.token = NoCred
                /\ (/\ email # <<>>
                    /\ r.password # ""
                    /\ \A u \in UsersWithEmail(email) :
                           ~CheckPasswordHash(u.password_hash, r.password))
                       => r.status = 401 /\ r.token = NoCred)
    /\ [][(resp'[1] # resp[1] /\ resp'[1].op = "login")
              => (users' = users /\ nextId' = nextId /\ "insert" \notin Range(resp'[1].calls))]_vars

\* a login with the wrong password for a registered email was answered 401
C4_Witness ==
    LET r == resp[1] IN
    /\ r.op = "login" /\ r.status = 401 /\ r.password # ""
    /\ UsersWithEmail(NormalizeEmail(r.rawEmail)) # {}

TimesChecked == 0..(MaxTime + JWT_EXPIRE_HOURS + 1)

\* C5: a token issued by login at time t carries the expiry t + 24 hours;
\* decode_jwt returns its claims at every time before the expiry and None at
\* every time after it, and rejects it at no time before the expiry.
C5_Expiry ==
    /\ LET r == resp[1] IN
       (r.op = "login" /\ r.status = 200)
           => /\ "exp" \in r.token.data.has
              /\ r.token.data.exp = r.at + JWT_EXPIRE_HOURS
              /\ SignedByServer(r.token)
    /\ held[1] # NoCred
           => \A t \in TimesChecked :
                  LET data == DecodeJwt(TokenString(held[1]), t)
                  IN  /\ t < held[1].data.exp => data = held[1].data
                      /\ t > held[1].data.exp => data = NoneValue

\* the gate rejected an issued, correctly signed token after its expiry
C5_Witness ==
    LET r == resp[1] IN
    /\ r.op = "gated" /\ ~r.ran /\ r.status = 401
    /\ BearerForm(r.header) /\ r.header.cred = held[1]
    /\ r.at > held[1].data.exp

\* C10: two concurrent register requests with the same normalized email and
\* non-empty passwords, on a users table that has the columns the INSERT
\* writes: one answers 200, the other 409, and one row holds the email.
C10_ConcurrentRegister ==
    LET a == resp[1]
        b == resp[2]
    IN  (/\ InsertColumns \subseteq usersColumns
         /\ a.op = "register" /\ b.op = "register"
         /\ NormalizeEmail(a.rawEmail) = NormalizeEmail(b.rawEmail)
         /\ NormalizeEmail(a.rawEmail) # <<>>
         /\ a.password # "" /\ b.password # "")
            => /\ {a.status, b.status} = {200, 409}
               /\ Cardinality(UsersWithEmail(NormalizeEmail(a.rawEmail))) = 1

\* both requests passed the existence check; one inserted, the other got the
\* duplicate-key error of the store and answered 500
C10_Witness ==
    /\ InsertColumns \subseteq usersColumns
    /\ resp[1].op = "register" /\ resp[2].op = "register"
    /\ ~resp[1].found /\ ~resp[2].found
    /\ {resp[1].status, resp[2].status} = {200, 500}
    /\ \E c \in Clients : resp[c].error = "IntegrityError"

\* the scope of the call caller 1 made last
CurrentScope == scope[1].of = ncalls /\ scope[1].of # 0

\* C6 as stated: a cursor scope ends with the cursor closed if it was created
\* and with exactly one commit-or-rollback call: a commit when the body
\* completed, a rollback and a raise when it did not.
C6_ScopeAsStated ==
    LET s == scope[1] IN
    s.done
        => /\ s.cursor # "open"
           /\ s.commits + s.rollbacks = 1
           /\ s.body = "ok" => s.commits = 1
           /\ s.body # "ok" => s.rollbacks = 1 /\ s.raised

\* C6, amended: a cursor scope ends with the cursor closed if it was created.
\* When the body completed there is one commit call, and if that commit raises
\* it is followed by one rollback call and the scope raises; when the body or
\* the cursor creation raised there is one rollback call, no commit, and the
\* scope raises. Nothing is committed or rolled back before the scope ends, and
\* a scope that raised makes its call raise.
C6_Scope ==
    LET s == scope[1] IN
    /\ s.done
        => /\ s.cursor # "open"
           /\ s.cursor = "none" <=> s.body = "none"
           /\ s.body = "ok"
                  => /\ s.commits = 1
                     /\ s.rollbacks = IF s.commitFailed THEN 1 ELSE 0
                     /\ s.raised = s.commitFailed
           /\ s.body # "ok" => s.commits = 0 /\ s.rollbacks = 1 /\ s.raised
    /\ (~s.done /\ s.of # 0)
        => s.cursor = "open" /\ s.commits = 0 /\ s.rollbacks = 0 /\ ~s.raised
    /\ (CurrentScope /\ s.done /\ s.raised)
        => pcH[1] = "idle" /\ ret[1].outcome = "raise"

\* a scope whose commit failed: commit, then rollback, cursor closed, raise
C6_Witness ==
    LET s == scope[1] IN
    /\ s.done /\ s.body = "ok" /\ s.commitFailed
    /\ s.commits = 1 /\ s.rollbacks = 1 /\ s.cursor = "closed"
    /\ ret[1].outcome = "raise"

\* C7: ensure_table with a table name, after an ensure_table call with the same
\* name and a statement that creates that table has returned normally, never
\* calls execute_non_query; no ensure_table call calls it more than once; with
\* the name omitted every call calls it, and the statement has been executed
\* once when the call returns.
C7_EnsureTable ==
    LET c == call[1]
        key == <<ResolveSchema(c.schema), c.name>>
    IN  /\ ensured \subseteq tables
        /\ c.op = "ensure_table"
            => /\ c.nonQueryCalls <= 1
               /\ (c.name # "" /\ c.again /\ Target(c.stmt) = key)
                      => c.nonQueryCalls = 0 /\ ~(pcH[1] = "create")
               /\ c.name = ""
                      => /\ c.nonQueryCalls = 1
                         /\ ret[1].outcome = "return" => c.executes = 1

\* a second ensure_table call for the same table returned without a write
C7_Witness ==
    LET c == call[1] IN
    /\ c.op = "ensure_table" /\ c.name # "" /\ c.again
    /\ Target(c.stmt) = <<ResolveSchema(c.schema), c.name>>
    /\ c.phase = "done" /\ ret[1].outcome = "return"
    /\ c.nonQueryCalls = 0 /\ c.executes = 1

\* the step in which caller 1 calls execute_many with an empty sequence
ManyEmptyStep ==
    /\ ncalls' = ncalls + 1
    /\ call'[1].op = "execute_many"
    /\ call'[1].params = <<>>

\* C8: execute_many with an empty parameter sequence returns 0 and changes
\* nothing: no connection is opened, no cursor scope entered, no statement
\* sent, nothing committed or rolled back.
C8_ExecuteManyEmpty ==
    [][ManyEmptyStep
          => /\ ret'[1].outcome = "return" /\ ret'[1].value = 0
             /\ pcH'[1] = "idle"
             /\ call'[1].executes = 0
             /\ UNCHANGED <<connection, connOpen, connects, pending, committed,
                            tables, scope, ensured>>]_vars

\* execute_many(<<>>) returned 0 on a helper whose connection had dropped
C8_Witness ==
    /\ call[1].op = "execute_many" /\ call[1].params = <<>>
    /\ ret[1].outcome = "return" /\ ret[1].value = 0
    /\ connection # 0 /\ connection \notin connOpen

\* the step in which a call of caller 1 reaches _get_connection
GetConnectionStep ==
    \/ /\ pcH[1] = "idle"
       /\ ncalls' = ncalls + 1
       /\ call'[1].op # "close"
       /\ ~ManyEmptyStep
    \/ pcH[1] = "create" /\ pcH'[1] # "create"

\* C9: no connection is open before the first operation; an operation reuses
\* the held connection while it is open and opens no other; when there is none
\* or it is not open the operation opens a fresh one and runs on it, or raises;
\* connections are opened by operations only, and at most one is ever open.
C9_Connection ==
    /\ [](/\ Cardinality(connOpen) <= 1
          /\ connOpen \subseteq {connection}
          /\ ncalls = 0 => connects = 0 /\ connection = 0)
    /\ [][GetConnectionStep
            => IF connection # 0 /\ connection \in connOpen
               THEN /\ UNCHANGED <<connection, connOpen, connects>>
                    /\ scope'[1].conn = connection
               ELSE \/ /\ connects' = connects + 1
                       /\ connection' = connects'
                       /\ connOpen' = {connection'}
                       /\ scope'[1].conn = connection'
                    \/ /\ UNCHANGED <<connection, connOpen, connects>>
                       /\ ret'[1].outcome = "raise"
                       /\ scope'[1] = NoScope]_vars
    /\ [][connects' # connects => GetConnectionStep]_vars

\* after a drop the next operation runs on a second, fresh connection
C9_Witness ==
    /\ connects = 2 /\ connection = 2 /\ connOpen = {2}
    /\ pcH[1] = "body" /\ scope[1].conn = 2

\* C11: two requests share the helper and its connection with their cursor
\* scopes interleaved: an execute_non_query call that has returned normally has
\* its row committed, and one that has raised has no row committed.
C11_SharedHelper ==
    \A t \in Threads :
        LET c == call[t] IN
        (c.op = "execute_non_query" /\ c.phase = "done")
            => /\ ret[t].outcome = "return" => c.stmt.row \in committed
               /\ ret[t].outcome = "raise" => c.stmt.row \notin committed

\* request 1's write returned normally, but the rollback of request 2's failed
\* scope on the same connection had discarded its row
C11_Witness ==
    /\ call[1].op = "execute_non_query" /\ call[1].phase = "done"
    /\ ret[1].outcome = "return"
    /\ call[1].stmt.row \notin committed \cup pending
    /\ scope[2].done /\ scope[2].raised /\ scope[2].rollbacks = 1
    /\ scope[2].conn = scope[1].conn
    /\ scope[1].commits = 1 /\ ~scope[1].commitFailed

====
